---- MODULE Spec2Model ----
(***************************************************************************)
(* State-machine model of the SuperStore streaming analysis:               *)
(*   orders.py                          the record source (stream_orders)  *)
(*   grouping_aggregation_helpers.py    the four single-pass primitives    *)
(*   queries.py                         the composite queries              *)
(*                                                                         *)
(* Numbers.  The program computes with Python floats.  The model draws     *)
(* Sales, Profit and the dates from small integer ranges and computes      *)
(* with exact rationals <<n, d>> (d > 0, lowest terms), so "a / b" is the  *)
(* true quotient and "a + b" the true sum; float rounding is not modelled. *)
(* None is the empty tuple.                                                *)
(*                                                                         *)
(* Dictionaries.  A Python dict is [keys |-> sequence of keys in insertion *)
(* order, map |-> function on those keys], because .items() iterates in    *)
(* insertion order and two of the queries loop over it.                    *)
(***************************************************************************)
EXTENDS Integers, Sequences, FiniteSets, TLC

VARIABLES
    file,     \* the data rows of the CSV behind the source (header implicit)
    fpos,     \* read position of the file-like object, in lines consumed
    call,     \* the top-level call being executed and its arguments
    pc,       \* position inside the top-level call
    agg,      \* the aggregation primitive invocation in progress
    gen,      \* the stream_orders generator the primitive is consuming
    stats,    \* the primitive's per-key accumulator dict
    ret,      \* what the last primitive returned
    loc,      \* local variables of the composite query
    result,   \* what the top-level call returned
    hist      \* the caller's record of the calls it has made: <<call, result>>

vars == <<file, fpos, call, pc, agg, gen, stats, ret, loc, result, hist>>

(***************************************************************************)
(* Bounds                                                                  *)
(***************************************************************************)
MaxRows == 3
MaxVal == 2
MaxTraversals == 2
MaxN == 2
MaxYears == 3
MaxRepeats == 2

None == <<>>

(***************************************************************************)
(* Exact rationals                                                         *)
(***************************************************************************)
Abs(x) == IF x < 0 THEN -x ELSE x

RECURSIVE GCD(_, _)
GCD(a, b) == IF b = 0 THEN a ELSE GCD(b, a % b)

\* the normal form of n / d, d # 0 (the operands are evaluated once)
Rat(n, d) ==
    CHOOSE r \in {LET g == GCD(Abs(p[1]), Abs(p[2]))
                      s == IF p[2] < 0 THEN -1 ELSE 1
                  IN  <<(s * p[1]) \div g, (s * p[2]) \div g>> :
                  p \in {<<n, d>>}} : TRUE

R(i) == <<i, 1>>
RAdd(a, b) ==
    CHOOSE r \in {Rat(x[1] * y[2] + y[1] * x[2], x[2] * y[2]) :
                  x \in {a}, y \in {b}} : TRUE
RSub(a, b) ==
    CHOOSE r \in {Rat(x[1] * y[2] - y[1] * x[2], x[2] * y[2]) :
                  x \in {a}, y \in {b}} : TRUE
RMul(a, b) ==
    CHOOSE r \in {Rat(x[1] * y[1], x[2] * y[2]) : x \in {a}, y \in {b}} : TRUE
RDiv(a, b) ==
    CHOOSE r \in {Rat(x[1] * y[2], x[2] * y[1]) : x \in {a}, y \in {b}} : TRUE
RLt(a, b) == a[1] * b[2] < b[1] * a[2]
RLe(a, b) == a[1] * b[2] <= b[1] * a[2]
RZero == R(0)
\* a / b as Python evaluates it: ZeroDivisionError when b is 0.0
ZeroDivisionError == <<"ZeroDivisionError">>
Div(a, b) == IF b[1] = 0 THEN ZeroDivisionError ELSE RDiv(a, b)
\* Python truthiness of a float: 0.0 is falsy
Truthy(a) == a[1] # 0

(***************************************************************************)
(* Python dict                                                             *)
(***************************************************************************)
EmptyDict == [keys |-> <<>>, map |-> <<>>]
Range(s) == {s[i] : i \in DOMAIN s}
DKeys(d) == Range(d.keys)
DHas(d, k) == k \in DKeys(d)
DGet(d, k, default) == IF DHas(d, k) THEN d.map[k] ELSE default
DSet(d, k, v) ==
    IF DHas(d, k)
    THEN [d EXCEPT !.map = [@ EXCEPT ![k] = v]]
    ELSE [keys |-> Append(d.keys, k),
          map  |-> [x \in DKeys(d) \cup {k} |-> IF x = k THEN v ELSE d.map[x]]]

(***************************************************************************)
(* orders.py: the Order model and the record source                        *)
(***************************************************************************)
\* A CSV row holds text.  A numeric column is modelled by the integer its
\* text denotes; `bad` names the required numeric column whose text does
\* not parse ("" when all parse).  A date column is [txt, day]: txt says
\* whether the text is a date ("ok"), something else ("junk") or empty.
NoDate == [txt |-> "empty", day |-> 0]
Day(n) == [txt |-> "ok", day |-> n]
JunkDate == [txt |-> "junk", day |-> 0]

DefaultRow ==
    [Category |-> "Furniture", Sub_Category |-> "Chairs", Year |-> 2020,
     Market |-> "US", Sales |-> 1, Profit |-> 1, Discount |-> 0,
     Order_Date |-> NoDate, Ship_Date |-> NoDate, bad |-> ""]

parse_dt(value) == IF value.txt = "ok" THEN <<value.day>> ELSE None

IsOrder(x) == x # None

\* a field that does not parse is read as the default row's value
from_row_Lenient(row) ==
    [category     |-> row.Category,
     sub_category |-> row.Sub_Category,
     year         |-> row.Year,
     market       |-> row.Market,
     sales        |-> R(row.Sales),
     profit       |-> R(row.Profit),
     discount     |-> R(row.Discount),
     order_date   |-> parse_dt(row.Order_Date),
     ship_date    |-> parse_dt(row.Ship_Date)]

\* Order.from_row: None stands for the ValueError of int()/float()
from_row(row) ==
    IF row.bad # ""
    THEN None
    ELSE [category     |-> row.Category,
          sub_category |-> row.Sub_Category,
          year         |-> row.Year,
          market       |-> row.Market,
          sales        |-> R(row.Sales),
          profit       |-> R(row.Profit),
          discount     |-> R(row.Discount),
          order_date   |-> parse_dt(row.Order_Date),
          ship_date    |-> parse_dt(row.Ship_Date)]

\* The generator object stream_orders(source) returns.  kind "path": the
\* generator opens the path itself and owns the handle (position pos).
\* kind "file": it reads through the caller's file object, whose position
\* fpos is shared by every generator made from that object.  Positions
\* count lines consumed; line 0 is the header, line i the i-th data row.
\* hdr is csv.DictReader's fieldnames: "unread" until the first row is
\* requested, "ok" when the line it took as header was the header,
\* "shifted" when it was a data row.
stream_orders(source) ==
    [kind |-> source, hdr |-> "unread", pos |-> 0, st |-> "run"]

NoGen == [kind |-> "path", hdr |-> "unread", pos |-> 0, st |-> "none"]

\* One next() on the generator g with the shared position fp:
\* out is "order" (with the Order), "stop" (StopIteration) or "error".
GenNext(g, fp) ==
    LET cur  == IF g.kind = "path" THEN g.pos ELSE fp
        eof0 == cur > Len(file)
        hdr1 == IF g.hdr # "unread" THEN g.hdr
                ELSE IF eof0 THEN "unread"
                ELSE IF cur = 0 THEN "ok" ELSE "shifted"
        cur1 == IF g.hdr = "unread" /\ ~eof0 THEN cur + 1 ELSE cur
        eof1 == cur1 > Len(file)
        cur2 == IF eof1 THEN cur1 ELSE cur1 + 1
        ord  == IF eof1 \/ hdr1 # "ok" THEN None ELSE from_row(file[cur1])
        out  == IF g.st # "run" \/ eof1 THEN "stop"
                ELSE IF IsOrder(ord) THEN "order" ELSE "error"
        st1  == IF out = "order" THEN "run"
                ELSE IF out = "stop" THEN "done" ELSE "failed"
        adv  == IF g.st # "run" THEN cur ELSE cur2
    IN  [out   |-> out,
         order |-> ord,
         gen   |-> [kind |-> g.kind,
                    hdr  |-> IF g.st # "run" THEN g.hdr ELSE hdr1,
                    pos  |-> IF g.kind = "path" THEN adv ELSE g.pos,
                    st   |-> IF g.st # "run" THEN g.st ELSE st1],
         fpos  |-> IF g.kind = "path" THEN fp ELSE adv]

(***************************************************************************)
(* The key, value and filter lambdas the callers pass                      *)
(***************************************************************************)
key_fn(name, o) ==
    CASE name = "year_market_category"  -> <<o.year, o.market, o.category>>
      [] name = "category_sub_category" -> <<o.category, o.sub_category>>
      [] name = "market_category"       -> <<o.market, o.category>>
      [] name = "all"                   -> <<"all">>

value_fn(name, o) ==
    CASE name = "sales"       -> o.sales
      [] name = "profit"      -> o.profit
      [] name = "fulfillment" -> R(o.ship_date[1] - o.order_date[1])

filter_fn_AnyDiscount(name, o) ==
    CASE name = "none"       -> TRUE
      [] name = "discount"   -> o.discount # RZero
      [] name = "with_dates" -> o.order_date # None /\ o.ship_date # None

\* the predicate of the filter() wrapped around the stream ("none": no filter)
filter_fn(name, o) ==
    CASE name = "none"       -> TRUE
      [] name = "discount"   -> RLt(RZero, o.discount)
      [] name = "with_dates" -> o.order_date # None /\ o.ship_date # None

(***************************************************************************)
(* grouping_aggregation_helpers.py                                         *)
(***************************************************************************)
NoAgg == [fn |-> "", key_fn |-> "all", value_fn |-> "sales",
          filt |-> "none", sample |-> FALSE, st |-> "none"]

Invoke(fn, k, v, f, sample) ==
    [fn |-> fn, key_fn |-> k, value_fn |-> v, filt |-> f,
     sample |-> sample, st |-> "run"]

SumUpdate_Overwrite(totals, key, value) == DSet(totals, key, value)

\* totals[key] += value on a defaultdict(float)
SumUpdate(totals, key, value) ==
    DSet(totals, key, RAdd(DGet(totals, key, RZero), value))

\* what next() on the stream in progress gives, and the key and value of
\* the record it yields
Pulled == GenNext(gen, fpos)
PulledKey == key_fn(agg.key_fn, Pulled.order)
PulledValue == value_fn(agg.value_fn, Pulled.order)

\* an iteration that takes two records from the stream and folds the first
AggStep_PullTwice(fn, updated, finalized) ==
    /\ agg.fn = fn
    /\ agg.st = "run"
    /\ gen' = GenNext(Pulled.gen, Pulled.fpos).gen
    /\ fpos' = Pulled.fpos
    /\ CASE Pulled.out = "order" ->
              /\ stats' = IF filter_fn(agg.filt, Pulled.order)
                          THEN updated ELSE stats
              /\ UNCHANGED <<agg, ret>>
         [] Pulled.out = "stop" ->
              /\ ret' = finalized
              /\ agg' = [agg EXCEPT !.st = "ret"]
              /\ UNCHANGED stats
         [] Pulled.out = "error" ->
              /\ agg' = [agg EXCEPT !.st = "raised"]
              /\ UNCHANGED <<stats, ret>>
    /\ UNCHANGED <<hist, file, call, pc, loc, result>>

\* One iteration of the for loop of the primitive fn: pull the next record
\* through the filter and fold it (updated is the accumulator after the
\* fold); when the stream stops, return the finalized mapping; when the
\* stream raises, the exception propagates.
AggStep(fn, updated, finalized) ==
    /\ agg.fn = fn
    /\ agg.st = "run"
    /\ gen' = Pulled.gen
    /\ fpos' = Pulled.fpos
    /\ CASE Pulled.out = "order" ->
              /\ stats' = IF filter_fn(agg.filt, Pulled.order)
                          THEN updated ELSE stats
              /\ UNCHANGED <<agg, ret>>
         [] Pulled.out = "stop" ->
              /\ ret' = finalized
              /\ agg' = [agg EXCEPT !.st = "ret"]
              /\ UNCHANGED stats
         [] Pulled.out = "error" ->
              /\ agg' = [agg EXCEPT !.st = "raised"]
              /\ UNCHANGED <<stats, ret>>
    /\ UNCHANGED <<hist, file, call, pc, loc, result>>

\* return dict(totals)
SumFinalize(totals) == totals

aggregate_sum_by_key ==
    AggStep("aggregate_sum_by_key",
            SumUpdate(stats, PulledKey, PulledValue), SumFinalize(stats))

\* The dict a comprehension or a result-building loop makes from the dict
\* d: val maps the keys of d it keeps to their values; they keep d's order.
DComprehend(d, val) ==
    [keys |-> SelectSeq(d.keys, LAMBDA k : k \in DOMAIN val),
     map  |-> val]

\* total[key] += value; count[key] += 1: the two defaultdicts are kept as
\* one dict of <<total, count>>, since they always have the same keys
MeanUpdate(tc, key, value) ==
    LET old == DGet(tc, key, <<RZero, 0>>)
    IN  DSet(tc, key, <<RAdd(old[1], value), old[2] + 1>>)

MeanFinalize_Total(tc) ==
    DComprehend(tc, [k \in {x \in DKeys(tc) : tc.map[x][2] > 0} |-> tc.map[k][1]])

\* {key: total[key] / count[key] for key in total if count[key] > 0}
MeanFinalize(tc) ==
    DComprehend(tc, [k \in {x \in DKeys(tc) : tc.map[x][2] > 0} |->
                        RDiv(tc.map[k][1], R(tc.map[k][2]))])

aggregate_mean_by_key ==
    AggStep("aggregate_mean_by_key",
            MeanUpdate(stats, PulledKey, PulledValue), MeanFinalize(stats))

\* math.sqrt of a rational >= 0: the rational root when there is one,
\* otherwise the triple <<n, d, 2>> standing for the irrational root of n/d
IsSquare(n) == \E k \in 0..n : k * k = n
IRoot(n) == CHOOSE k \in 0..n : k * k = n
sqrt(r) ==
    IF IsSquare(r[1]) /\ IsSquare(r[2])
    THEN <<IRoot(r[1]), IRoot(r[2])>>
    ELSE <<r[1], r[2], 2>>

\* M2 grows by the square of the deviation from the old mean
StddevUpdate_DeltaSquared(st, key, value) ==
    LET old    == DGet(st, key, <<0, RZero, RZero>>)
        count  == old[1] + 1
        delta  == RSub(value, old[2])
        mean   == RAdd(old[2], RDiv(delta, R(count)))
        m2     == RAdd(old[3], RMul(delta, delta))
    IN  DSet(st, key, <<count, mean, m2>>)

\* Welford's update of (count, mean, M2)
StddevUpdate(st, key, value) ==
    LET old    == DGet(st, key, <<0, RZero, RZero>>)
        count  == old[1] + 1
        delta  == RSub(value, old[2])
        mean   == RAdd(old[2], RDiv(delta, R(count)))
        delta2 == RSub(value, mean)
        m2     == RAdd(old[3], RMul(delta, delta2))
    IN  DSet(st, key, <<count, mean, m2>>)

\* denom = (count - 1) if sample and count > 1 else count
Denom(sample, count) == IF sample /\ count > 1 THEN count - 1 ELSE count

StddevFinalize(st) ==
    LET kept == {k \in DKeys(st) : /\ st.map[k][1] # 0
                                   /\ Denom(agg.sample, st.map[k][1]) # 0}
    IN  DComprehend(st, [k \in kept |->
                           sqrt(RDiv(st.map[k][3],
                                     R(Denom(agg.sample, st.map[k][1]))))])

aggregate_stddev_by_key ==
    AggStep("aggregate_stddev_by_key",
            StddevUpdate(stats, PulledKey, PulledValue), StddevFinalize(stats))

RMin(a, b) == IF RLt(b, a) THEN b ELSE a
RMax(a, b) == IF RLt(a, b) THEN b ELSE a

MinMaxCountUpdate_KeepMin(st, key, value) ==
    IF ~DHas(st, key)
    THEN DSet(st, key, <<value, value, 1>>)
    ELSE LET cur == st.map[key]
         IN  DSet(st, key, <<cur[1], RMax(cur[2], value), cur[3] + 1>>)

MinMaxCountUpdate(st, key, value) ==
    IF ~DHas(st, key)
    THEN DSet(st, key, <<value, value, 1>>)
    ELSE LET cur == st.map[key]
         IN  DSet(st, key, <<RMin(cur[1], value), RMax(cur[2], value), cur[3] + 1>>)

\* return stats
MinMaxCountFinalize(st) == st

aggregate_min_max_count_by_key ==
    AggStep("aggregate_min_max_count_by_key",
            MinMaxCountUpdate(stats, PulledKey, PulledValue),
            MinMaxCountFinalize(stats))

(***************************************************************************)
(* A direct call of a primitive on the records of a path                   *)
(***************************************************************************)
Primitives == {"aggregate_sum_by_key", "aggregate_mean_by_key",
               "aggregate_stddev_by_key", "aggregate_min_max_count_by_key"}

CallPrimitive ==
    /\ pc = "start"
    /\ call.fn \in Primitives
    /\ agg' = Invoke(call.fn, call.key_fn, call.value_fn, "none", call.sample)
    /\ gen' = stream_orders("path")
    /\ stats' = EmptyDict
    /\ pc' = "agg"
    /\ UNCHANGED <<hist, file, fpos, call, ret, loc, result>>

\* the accumulator outlives the pass when the next pass is the same fold
StartPass_KeepStats(from, to, a) ==
    /\ pc = from
    /\ agg' = a
    /\ gen' = stream_orders("path")
    /\ stats' = IF /\ agg.fn = a.fn
                   /\ agg.key_fn = a.key_fn
                   /\ agg.value_fn = a.value_fn
                THEN stats ELSE EmptyDict
    /\ pc' = to
    /\ UNCHANGED <<hist, file, fpos, call, ret, result>>

\* a composite query starts one pass of a primitive over stream_orders(path)
StartPass(from, to, a) ==
    /\ pc = from
    /\ agg' = a
    /\ gen' = stream_orders("path")
    /\ stats' = EmptyDict
    /\ pc' = to
    /\ UNCHANGED <<hist, file, fpos, call, ret, result>>

profit_std_by_market_category ==
    /\ call.fn = "profit_std_by_market_category"
    /\ StartPass("start", "agg",
                 Invoke("aggregate_stddev_by_key", "market_category", "profit",
                        "none", call.sample))
    /\ UNCHANGED loc

profit_min_max_count_by_market_category ==
    /\ call.fn = "profit_min_max_count_by_market_category"
    /\ StartPass("start", "agg",
                 Invoke("aggregate_min_max_count_by_key", "market_category",
                        "profit", "none", FALSE))
    /\ UNCHANGED loc

\* called directly, or by yoy_category_sales_trends for its totals
sales_by_year_region_category ==
    /\ call.fn \in {"sales_by_year_region_category", "yoy_category_sales_trends"}
    /\ StartPass("start", "agg",
                 Invoke("aggregate_sum_by_key", "year_market_category", "sales",
                        "none", FALSE))
    /\ UNCHANGED loc

SinglePass == {"sales_by_year_region_category",
               "profit_std_by_market_category",
               "profit_min_max_count_by_market_category"}

\* return aggregate_..._by_key(...)
ReturnPrimitive ==
    /\ pc = "agg"
    /\ call.fn \in Primitives \cup SinglePass
    /\ agg.st = "ret"
    /\ result' = ret
    /\ pc' = "done"
    /\ UNCHANGED <<hist, file, fpos, call, agg, gen, stats, ret, loc>>

\* an exception of the stream leaves the call without a result
Raise ==
    /\ pc \notin {"done", "raised"}
    /\ agg.st = "raised"
    /\ pc' = "raised"
    /\ UNCHANGED <<hist, file, fpos, call, agg, gen, stats, ret, loc, result>>

(***************************************************************************)
(* queries.py                                                              *)
(***************************************************************************)
\* return v, unless evaluating it raised
Return(raised, v) ==
    IF raised
    THEN pc' = "raised" /\ UNCHANGED result
    ELSE pc' = "done" /\ result' = v

All == <<"all">>

\* total_discounted_profit, called directly or by discounted_profit_share
total_discounted_profit ==
    /\ call.fn \in {"total_discounted_profit", "discounted_profit_share"}
    /\ StartPass("start", "discounted_pass",
                 Invoke("aggregate_sum_by_key", "all", "profit", "discount", FALSE))
    /\ UNCHANGED loc

\* return totals.get("all", 0.0)
total_discounted_profit_return ==
    /\ pc = "discounted_pass"
    /\ agg.st = "ret"
    /\ IF call.fn = "total_discounted_profit"
       THEN Return(FALSE, DGet(ret, All, RZero)) /\ UNCHANGED loc
       ELSE /\ loc' = [discounted |-> DGet(ret, All, RZero)]
            /\ pc' = "discounted"
            /\ UNCHANGED result
    /\ UNCHANGED <<hist, file, fpos, call, agg, gen, stats, ret>>

discounted_profit_share_total ==
    /\ call.fn = "discounted_profit_share"
    /\ StartPass("discounted", "total_pass",
                 Invoke("aggregate_sum_by_key", "all", "profit", "none", FALSE))
    /\ UNCHANGED loc

Share_Unguarded(discounted, total) == Div(discounted, total)

\* (discounted / total) if total else None
Share(discounted, total) ==
    IF Truthy(total) THEN Div(discounted, total) ELSE None

discounted_profit_share_return ==
    /\ pc = "total_pass"
    /\ agg.st = "ret"
    /\ LET share == Share(loc.discounted, DGet(ret, All, RZero))
       IN  Return(share = ZeroDivisionError, share)
    /\ UNCHANGED <<hist, file, fpos, call, agg, gen, stats, ret, loc>>

average_fulfillment_days ==
    /\ call.fn = "average_fulfillment_days"
    /\ StartPass("start", "mean_pass",
                 Invoke("aggregate_mean_by_key", "all", "fulfillment",
                        "with_dates", FALSE))
    /\ UNCHANGED loc

\* return mean_map.get("all")
average_fulfillment_days_return ==
    /\ pc = "mean_pass"
    /\ agg.st = "ret"
    /\ Return(FALSE, DGet(ret, All, None))
    /\ UNCHANGED <<hist, file, fpos, call, agg, gen, stats, ret, loc>>

\* step 2 of yoy_category_sales_trends: grouped[(region, category)] gets
\* (year, sales) appended for each key of totals from the i-th on
RECURSIVE Regroup(_, _, _)
Regroup(totals, i, grouped) ==
    IF i > Len(totals.keys)
    THEN grouped
    ELSE LET k == totals.keys[i]
             g == <<k[2], k[3]>>
         IN  Regroup(totals, i + 1,
                     DSet(grouped, g,
                          Append(DGet(grouped, g, <<>>), <<k[1], totals.map[k]>>)))

\* sorted(entries, key=lambda x: x[0]), by insertion (stable)
RECURSIVE SortedByYear(_)
SortedByYear(xs) ==
    IF xs = <<>> THEN <<>>
    ELSE LET init == SortedByYear(SubSeq(xs, 1, Len(xs) - 1))
             x    == xs[Len(xs)]
             k    == Cardinality({j \in DOMAIN init : init[j][1] <= x[1]})
         IN  SubSeq(init, 1, k) \o <<x>> \o SubSeq(init, k + 1, Len(init))

YoyChange_Unguarded(sales, prev_sales) == Div(RSub(sales, prev_sales), prev_sales)

\* ((sales - prev_sales) / prev_sales) if prev_sales != 0 else None
YoyChange(sales, prev_sales) ==
    IF prev_sales # RZero
    THEN Div(RSub(sales, prev_sales), prev_sales)
    ELSE None

\* the walk over the sorted entries from the i-th on, carrying prev_sales
RECURSIVE Trends(_, _, _)
Trends(entries, i, prev_sales) ==
    IF i > Len(entries)
    THEN <<>>
    ELSE LET year  == entries[i][1]
             sales == entries[i][2]
             t == IF prev_sales = None
                  THEN <<year, sales, None, None>>
                  ELSE <<year, sales, prev_sales, YoyChange(sales, prev_sales)>>
         IN  <<t>> \o Trends(entries, i + 1, sales)

YoyResults(totals) ==
    LET grouped == Regroup(totals, 1, EmptyDict)
    IN  DComprehend(grouped,
                    [k \in DKeys(grouped) |->
                        Trends(SortedByYear(grouped.map[k]), 1, None)])

yoy_category_sales_trends ==
    /\ call.fn = "yoy_category_sales_trends"
    /\ pc = "agg"
    /\ agg.st = "ret"
    /\ LET yoy_results == YoyResults(ret)
       IN  Return(\E k \in DKeys(yoy_results) :
                     \E j \in DOMAIN yoy_results.map[k] :
                        yoy_results.map[k][j][4] = ZeroDivisionError,
                  yoy_results)
    /\ UNCHANGED <<hist, file, fpos, call, agg, gen, stats, ret, loc>>

\* first pass of profit_margin_by_category_subcategory and of
\* top_categories_by_margin: total_sales
MarginQueries == {"profit_margin_by_category_subcategory",
                  "top_categories_by_margin"}

total_sales_pass ==
    /\ call.fn \in MarginQueries
    /\ StartPass("start", "sales_pass",
                 Invoke("aggregate_sum_by_key", "category_sub_category",
                        "sales", "none", FALSE))
    /\ UNCHANGED loc

\* second pass: total_profit, over a new stream_orders(path)
total_profit_pass ==
    /\ call.fn \in MarginQueries
    /\ agg.st = "ret"
    /\ StartPass("sales_pass", "profit_pass",
                 Invoke("aggregate_sum_by_key", "category_sub_category",
                        "profit", "none", FALSE))
    /\ loc' = [total_sales |-> ret]

Margin_Unguarded(total_sales, total_profit, key) ==
    Div(DGet(total_profit, key, RZero), total_sales.map[key])

\* (profit / sales) if sales else None, with profit = total_profit.get(key, 0.0)
Margin(total_sales, total_profit, key) ==
    IF Truthy(total_sales.map[key])
    THEN Div(DGet(total_profit, key, RZero), total_sales.map[key])
    ELSE None

\* the loop that fills margins, one entry per key of total_sales
Margins(total_sales, total_profit) ==
    DComprehend(total_sales,
                [k \in DKeys(total_sales) |-> Margin(total_sales, total_profit, k)])

profit_margin_by_category_subcategory ==
    /\ call.fn = "profit_margin_by_category_subcategory"
    /\ pc = "profit_pass"
    /\ agg.st = "ret"
    /\ LET margins == Margins(loc.total_sales, ret)
       IN  Return(\E k \in DKeys(margins) : margins.map[k] = ZeroDivisionError,
                  margins)
    /\ UNCHANGED <<hist, file, fpos, call, agg, gen, stats, ret, loc>>

\* Python's order on str, for the names the inputs use
Names == <<"Chairs", "Furniture", "Paper", "Tables">>
NameRank(x) == CHOOSE i \in DOMAIN Names : Names[i] = x

\* a < b on heap entries (margin, category, sub_category): tuple order
EntryLt(a, b) ==
    \/ RLt(a[1], b[1])
    \/ /\ a[1] = b[1]
       /\ \/ NameRank(a[2]) < NameRank(b[2])
          \/ a[2] = b[2] /\ NameRank(a[3]) < NameRank(b[3])

\* heapq._siftdown(heap, startpos, pos) with the item being moved; the
\* list is 1-based here, so the parent of position p is p \div 2
RECURSIVE SiftDown(_, _, _, _)
SiftDown(heap, startpos, pos, newitem) ==
    IF pos > startpos /\ EntryLt(newitem, heap[pos \div 2])
    THEN SiftDown([heap EXCEPT ![pos] = heap[pos \div 2]], startpos,
                  pos \div 2, newitem)
    ELSE [heap EXCEPT ![pos] = newitem]

\* heapq.heappush
heappush(heap, item) ==
    SiftDown(Append(heap, item), 1, Len(heap) + 1, item)

\* heapq._siftup: bubble the smaller child up until a leaf is reached,
\* then sift the item down from there
RECURSIVE SiftUp(_, _, _, _)
SiftUp(heap, startpos, pos, newitem) ==
    LET childpos == 2 * pos
        rightpos == childpos + 1
        c == IF rightpos <= Len(heap) /\ ~EntryLt(heap[childpos], heap[rightpos])
             THEN rightpos ELSE childpos
    IN  IF childpos <= Len(heap)
        THEN SiftUp([heap EXCEPT ![pos] = heap[c]], startpos, c, newitem)
        ELSE SiftDown([heap EXCEPT ![pos] = newitem], startpos, pos, newitem)

\* the heap after heapq.heappop
heappop(heap) ==
    LET lastelt == heap[Len(heap)]
        rest    == SubSeq(heap, 1, Len(heap) - 1)
    IN  IF rest = <<>> THEN rest ELSE SiftUp(rest, 1, 1, lastelt)

\* the margin of the group, None when the iteration skips it (not sales)
TopMargin(total_sales, total_profit, key) ==
    IF ~Truthy(total_sales.map[key])
    THEN None
    ELSE Div(DGet(total_profit, key, RZero), total_sales.map[key])

HeapIteration_NoPop(heap, n, key, margin) ==
    IF margin = None THEN heap ELSE heappush(heap, <<margin, key[1], key[2]>>)

\* one iteration of the loop over total_sales.items(): push, and pop the
\* smallest entry when the heap has grown beyond n
HeapIteration(heap, n, key, margin) ==
    IF margin = None
    THEN heap
    ELSE LET pushed == heappush(heap, <<margin, key[1], key[2]>>)
         IN  IF Len(pushed) > n THEN heappop(pushed) ELSE pushed

\* heap = [] and the loop is entered
top_categories_by_margin ==
    /\ call.fn = "top_categories_by_margin"
    /\ pc = "profit_pass"
    /\ agg.st = "ret"
    /\ loc' = [total_sales |-> loc.total_sales, total_profit |-> ret,
               heap |-> <<>>, i |-> 0]
    /\ pc' = "heap_loop"
    /\ UNCHANGED <<hist, file, fpos, call, agg, gen, stats, ret, result>>

top_categories_by_margin_iteration ==
    /\ pc = "heap_loop"
    /\ loc.i < Len(loc.total_sales.keys)
    /\ LET key    == loc.total_sales.keys[loc.i + 1]
           margin == TopMargin(loc.total_sales, loc.total_profit, key)
       IN  IF margin = ZeroDivisionError
           THEN pc' = "raised" /\ UNCHANGED loc
           ELSE /\ loc' = [loc EXCEPT
                             !.i = @ + 1,
                             !.heap = HeapIteration(@, call.n, key, margin)]
                /\ UNCHANGED pc
    /\ UNCHANGED <<hist, file, fpos, call, agg, gen, stats, ret, result>>

\* sorted(heap, key=lambda x: x[0], reverse=True), by insertion: the sort
\* is stable, so entries with equal margins keep their order in the heap
RECURSIVE SortedByMarginDesc(_)
SortedByMarginDesc(xs) ==
    IF xs = <<>> THEN <<>>
    ELSE LET init == SortedByMarginDesc(SubSeq(xs, 1, Len(xs) - 1))
             x    == xs[Len(xs)]
             k    == Cardinality({j \in DOMAIN init : ~RLt(init[j][1], x[1])})
         IN  SubSeq(init, 1, k) \o <<x>> \o SubSeq(init, k + 1, Len(init))

\* the list returned: (category, sub_category, margin) of the sorted heap
TopList(heap) ==
    LET top == SortedByMarginDesc(heap)
    IN  [j \in DOMAIN top |-> <<top[j][2], top[j][3], top[j][1]>>]

top_categories_by_margin_return ==
    /\ pc = "heap_loop"
    /\ loc.i = Len(loc.total_sales.keys)
    /\ Return(FALSE, TopList(loc.heap))
    /\ UNCHANGED <<hist, file, fpos, call, agg, gen, stats, ret, loc>>

(***************************************************************************)
(* queries_run.py: a caller that makes one query call after another on     *)
(* the same path                                                           *)
(***************************************************************************)
\* the caller keeps what the call returned
Record ==
    /\ pc = "done"
    /\ hist' = Append(hist, <<call, result>>)
    /\ pc' = "idle"
    /\ UNCHANGED <<file, fpos, call, agg, gen, stats, ret, loc, result>>

\* how often the caller has made the call c
TimesCalled(c) == Cardinality({i \in DOMAIN hist : hist[i][1] = c})

\* The caller's next call: the query it started with, again, or once in
\* between any other query.  Nothing of the finished call is handed over:
\* its locals are dead, and the model leaves their last values in place.
CallNext(calls) ==
    /\ pc = "idle"
    /\ TimesCalled(hist[1][1]) < MaxRepeats
    /\ \E c \in calls :
          /\ c = hist[1][1] \/ hist[Len(hist)][1] = hist[1][1]
          /\ call' = c
    /\ pc' = "start"
    /\ result' = None
    /\ UNCHANGED <<file, fpos, agg, gen, stats, ret, loc, hist>>

(***************************************************************************)
(* Inputs                                                                  *)
(***************************************************************************)
Vals == -MaxVal .. MaxVal

SeqsUpTo(S, n) == UNION {[1..k -> S] : k \in 0..n}

InitWith(rows, calls) ==
    /\ file \in SeqsUpTo(rows, MaxRows)
    /\ call \in calls
    /\ fpos = 0
    /\ pc = "start"
    /\ agg = NoAgg
    /\ gen = NoGen
    /\ stats = EmptyDict
    /\ ret = EmptyDict
    /\ loc = <<>>
    /\ result = None
    /\ hist = <<>>

\* rows for the generic primitives: two markets, any value
PrimRows ==
    {[DefaultRow EXCEPT !.Market = m, !.Sales = s, !.Profit = -s] :
        m \in {"US", "CAN"}, s \in Vals}

PrimCall(fn, k, v, sample) ==
    [fn |-> fn, key_fn |-> k, value_fn |-> v, sample |-> sample, n |-> 0]

QueryCall(fn, sample, n) ==
    [fn |-> fn, key_fn |-> "all", value_fn |-> "sales", sample |-> sample, n |-> n]

InitPrim ==
    InitWith(PrimRows,
             {PrimCall(fn, k, v, sample) :
                fn \in Primitives \ {"aggregate_stddev_by_key"},
                k \in {"market_category", "all"},
                v \in {"sales", "profit"}, sample \in {FALSE}}
             \cup
             {PrimCall("aggregate_stddev_by_key", k, v, sample) :
                k \in {"market_category", "all"},
                v \in {"sales", "profit"}, sample \in BOOLEAN}
             \cup
             {QueryCall("profit_std_by_market_category", sample, 0) :
                sample \in BOOLEAN}
             \cup
             {QueryCall("profit_min_max_count_by_market_category", FALSE, 0)})

NextPrim ==
    \/ CallPrimitive
    \/ profit_std_by_market_category
    \/ profit_min_max_count_by_market_category
    \/ aggregate_sum_by_key
    \/ aggregate_mean_by_key
    \/ aggregate_stddev_by_key
    \/ aggregate_min_max_count_by_key
    \/ ReturnPrimitive

SpecPrim == InitPrim /\ [][NextPrim]_vars

\* the records of the source, as the primitives see them
Orders == [i \in 1..Len(file) |-> from_row(file[i])]

\* indices of the first n records whose key under k is key
Group(k, key, n) == {i \in 1..n : key_fn(k, Orders[i]) = key}

RECURSIVE RSum(_, _)
RSum(f, S) == IF S = {} THEN RZero
              ELSE LET i == CHOOSE x \in S : TRUE
                   IN  RAdd(f[i], RSum(f, S \ {i}))

ValuesOf(v) == [i \in 1..Len(file) |-> value_fn(v, Orders[i])]

\* C6: sum_by_key returns a mapping whose keys are exactly the keys some
\* record produces and whose value for a key is the arithmetic sum of the
\* values of the records having that key; the empty sequence gives the
\* empty mapping.
C6_SumByKey ==
    (call.fn = "aggregate_sum_by_key" /\ pc = "done") =>
        /\ DKeys(result) = {key_fn(call.key_fn, Orders[i]) : i \in 1..Len(file)}
        /\ \A key \in DKeys(result) :
              result.map[key] =
                 RSum(ValuesOf(call.value_fn), Group(call.key_fn, key, Len(file)))
        /\ (file = <<>> => result = EmptyDict)

C6_Witness ==
    /\ call.fn = "aggregate_sum_by_key"
    /\ pc = "done"
    /\ Len(file) = 3
    /\ Cardinality(DKeys(result)) = 2

(***************************************************************************)
(* What a pass has seen                                                    *)
(***************************************************************************)
\* number of records the generator has yielded so far
Consumed == IF gen.pos = 0 THEN 0 ELSE gen.pos - 1

\* the key and value functions of the pass in progress
KeysSeen(n) == {key_fn(agg.key_fn, Orders[i]) : i \in 1..n}
SeenValues(key, n) ==
    {value_fn(agg.value_fn, Orders[i]) : i \in Group(agg.key_fn, key, n)}

IsStddevCall ==
    call.fn \in {"aggregate_stddev_by_key", "profit_std_by_market_category"}

\* keys of the whole input observed exactly once
Singletons ==
    {key \in KeysSeen(Len(file)) :
        Cardinality(Group(agg.key_fn, key, Len(file))) = 1}

\* C1: a key with exactly one observation is omitted from the result of
\* stddev_by_key in sample mode and is present with standard deviation 0
\* in population mode, also through profit_std_by_market_category.
C1_SingletonOmittedInSampleMode ==
    (IsStddevCall /\ pc = "done") =>
        \A key \in Singletons :
            IF call.sample
            THEN ~DHas(result, key)
            ELSE DHas(result, key) /\ result.map[key] = RZero

\* C7: after any prefix, min_max_count_by_key holds for every key seen the
\* minimum, the maximum and the number of that key's values in the prefix
\* (so min <= max and count >= 1), it holds no other key, and the mapping
\* returned is that state for the whole input.
C7_MinMaxCountState ==
    (agg.fn = "aggregate_min_max_count_by_key" /\ agg.st \in {"run", "ret"}) =>
        /\ DKeys(stats) = KeysSeen(Consumed)
        /\ \A key \in DKeys(stats) :
              LET vs == SeenValues(key, Consumed)
                  s  == stats.map[key]
              IN  /\ s[1] \in vs /\ \A v \in vs : RLe(s[1], v)
                  /\ s[2] \in vs /\ \A v \in vs : RLe(v, s[2])
                  /\ s[3] = Cardinality(Group(agg.key_fn, key, Consumed))
                  /\ RLe(s[1], s[2])
                  /\ s[3] >= 1
        /\ (pc = "done" =>
              /\ result = stats
              /\ Consumed = Len(file)
              /\ DKeys(result) = KeysSeen(Len(file)))

C7_Witness ==
    /\ call.fn = "profit_min_max_count_by_market_category"
    /\ pc = "done"
    /\ \E key \in DKeys(result) :
          /\ result.map[key][3] = 2
          /\ RLt(result.map[key][1], result.map[key][2])
    /\ Cardinality(DKeys(result)) = 2

(***************************************************************************)
(* Traversals of one source: a caller makes generators with                *)
(* stream_orders(source) on the same source and advances them in any order *)
(***************************************************************************)
StreamRows == {[DefaultRow EXCEPT !.Sales = s] : s \in 1..MaxVal}

InitStream ==
    /\ InitWith(StreamRows,
                {[fn |-> "stream_orders", source |-> src] : src \in {"path", "file"}})

\* g = stream_orders(source); loc lists the generators made so far, each
\* with the records it has yielded
Traverse ==
    /\ call.fn = "stream_orders"
    /\ Len(loc) < MaxTraversals
    /\ loc' = Append(loc, [g |-> stream_orders(call.source), out |-> <<>>])
    /\ UNCHANGED <<hist, file, fpos, call, pc, agg, gen, stats, ret, result>>

\* next(g) on the i-th generator
TraverseNext ==
    /\ call.fn = "stream_orders"
    /\ \E i \in DOMAIN loc :
          LET p == GenNext(loc[i].g, fpos)
          IN  /\ loc[i].g.st = "run"
              /\ fpos' = p.fpos
              /\ loc' = [loc EXCEPT ![i] =
                            [g   |-> p.gen,
                             out |-> IF p.out = "order"
                                     THEN Append(@.out, p.order) ELSE @.out]]
    /\ UNCHANGED <<hist, file, call, pc, agg, gen, stats, ret, result>>

NextStream == Traverse \/ TraverseNext

SpecStream == InitStream /\ [][NextStream]_vars

\* C2: every invocation of stream_orders on the same source, a path or a
\* file-like object, yields the complete record sequence from the first
\* record on, whatever earlier traversals of that source were started or
\* completed.
C2_FreshTraversal ==
    call.fn = "stream_orders" =>
        \A i \in DOMAIN loc :
            /\ loc[i].g.st # "failed"
            /\ loc[i].g.st = "done" => loc[i].out = Orders

(***************************************************************************)
(* Discount impact                                                         *)
(***************************************************************************)
\* Discount -1, 0, 1: a negative, a zero and a positive discount
ShareRows ==
    {[DefaultRow EXCEPT !.Profit = p, !.Discount = d] :
        p \in Vals, d \in {-1, 0, 1}}

InitShare ==
    InitWith(ShareRows,
             {QueryCall("total_discounted_profit", FALSE, 0),
              QueryCall("discounted_profit_share", FALSE, 0)})

NextShare ==
    \/ total_discounted_profit
    \/ total_discounted_profit_return
    \/ discounted_profit_share_total
    \/ discounted_profit_share_return
    \/ aggregate_sum_by_key

SpecShare == InitShare /\ [][NextShare]_vars

AllRecords == 1..Len(file)
ProfitOf == [i \in AllRecords |-> Orders[i].profit]
TotalProfit == RSum(ProfitOf, AllRecords)
Discounted == {i \in AllRecords : RLt(RZero, Orders[i].discount)}
DiscountedProfit == RSum(ProfitOf, Discounted)

\* C8: a number returned by discounted_profit_share lies in [0, 1], also
\* when some records have negative profit.
C8_ShareInUnitInterval ==
    (call.fn = "discounted_profit_share" /\ pc = "done" /\ result # None) =>
        RLe(RZero, result) /\ RLe(result, R(1))

\* C9: discounted_profit_share returns None exactly when the total profit
\* of all records is zero (the empty input included), otherwise the profit
\* of the records with discount > 0 divided by the total profit; it never
\* raises ZeroDivisionError.
C9_ShareOrNone ==
    call.fn = "discounted_profit_share" =>
        /\ pc # "raised"
        /\ pc = "done" =>
              /\ (result = None) <=> (TotalProfit = RZero)
              /\ result # None => result = RDiv(DiscountedProfit, TotalProfit)

C9_Witness ==
    /\ call.fn = "discounted_profit_share"
    /\ pc = "done"
    /\ Len(file) = 3
    /\ result = None
    /\ DiscountedProfit # RZero

\* C11: total_discounted_profit returns the sum of profit over exactly the
\* records whose discount is greater than zero; records with a zero or a
\* negative discount add nothing, and without a positive discount the
\* result is 0.0.
C11_TotalDiscountedProfit ==
    (call.fn = "total_discounted_profit" /\ pc = "done") =>
        /\ result = DiscountedProfit
        /\ Discounted = {} => result = RZero

\* one record of each kind of discount, all with profit to add
C11_Witness ==
    /\ call.fn = "total_discounted_profit"
    /\ pc = "done"
    /\ Len(file) = 3
    /\ {file[i].Discount : i \in 1..3} = {-1, 0, 1}
    /\ \A i \in 1..3 : file[i].Profit > 0
    /\ result # TotalProfit

(***************************************************************************)
(* Fulfillment time                                                        *)
(***************************************************************************)
MaxDay == 2

\* the order date is empty, unparseable, day 0 or day 1; the ship date is
\* unparseable or a day up to MaxDay
FulfilRows ==
    {[DefaultRow EXCEPT !.Order_Date = od, !.Ship_Date = sd] :
        od \in {NoDate, JunkDate, Day(0), Day(1)},
        sd \in {JunkDate} \cup {Day(d) : d \in 0..MaxDay}}

InitFulfil ==
    InitWith(FulfilRows, {QueryCall("average_fulfillment_days", FALSE, 0)})

NextFulfil ==
    \/ average_fulfillment_days
    \/ aggregate_mean_by_key
    \/ average_fulfillment_days_return

SpecFulfil == InitFulfil /\ [][NextFulfil]_vars

WithDates ==
    {i \in AllRecords : Orders[i].order_date # None /\ Orders[i].ship_date # None}
DaysOf ==
    [i \in WithDates |-> R(Orders[i].ship_date[1] - Orders[i].order_date[1])]

\* C10: average_fulfillment_days returns None exactly when no record has
\* both dates, otherwise the sum of (ship date - order date) in days over
\* the records with both dates divided by the number of those records;
\* records missing a date count in neither.
C10_AverageFulfillment ==
    (call.fn = "average_fulfillment_days" /\ pc = "done") =>
        /\ (result = None) <=> (WithDates = {})
        /\ result # None =>
              result = RDiv(RSum(DaysOf, WithDates), R(Cardinality(WithDates)))

C10_Witness ==
    /\ call.fn = "average_fulfillment_days"
    /\ pc = "done"
    /\ Cardinality(WithDates) = 2
    /\ Len(file) = 3
    /\ result = <<1, 2>>

(***************************************************************************)
(* Profit margin and the top-n ranking                                     *)
(***************************************************************************)
MarginRows ==
    {[DefaultRow EXCEPT !.Sub_Category = sc, !.Sales = s, !.Profit = p] :
        sc \in {"Chairs", "Paper", "Tables"}, s \in -1..1, p \in 0..1}

InitMargin ==
    InitWith(MarginRows,
             {QueryCall("profit_margin_by_category_subcategory", FALSE, 0)}
             \cup {QueryCall("top_categories_by_margin", FALSE, n) : n \in 0..MaxN})

NextMargin ==
    \/ total_sales_pass
    \/ total_profit_pass
    \/ aggregate_sum_by_key
    \/ profit_margin_by_category_subcategory
    \/ top_categories_by_margin
    \/ top_categories_by_margin_iteration
    \/ top_categories_by_margin_return

SpecMargin == InitMargin /\ [][NextMargin]_vars

CatSubGroups == {key_fn("category_sub_category", Orders[i]) : i \in AllRecords}
InGroup(key) == {i \in AllRecords : key_fn("category_sub_category", Orders[i]) = key}
SalesOf == [i \in AllRecords |-> Orders[i].sales]
GroupSales(key) == RSum(SalesOf, InGroup(key))
GroupProfit(key) == RSum(ProfitOf, InGroup(key))
GroupMargin(key) == RDiv(GroupProfit(key), GroupSales(key))
Ranked == {key \in CatSubGroups : GroupSales(key) # RZero}

\* C5: profit_margin_by_category_subcategory returns a mapping whose keys
\* are exactly the (category, sub_category) pairs of the records, whose
\* value is None exactly for the groups with zero total sales and is
\* otherwise total profit / total sales; it never raises ZeroDivisionError.
C5_MarginByGroup ==
    call.fn = "profit_margin_by_category_subcategory" =>
        /\ pc # "raised"
        /\ pc = "done" =>
              /\ DKeys(result) = CatSubGroups
              /\ \A key \in DKeys(result) :
                    /\ (result.map[key] = None) <=> (GroupSales(key) = RZero)
                    /\ result.map[key] # None => result.map[key] = GroupMargin(key)

C5_Witness ==
    /\ call.fn = "profit_margin_by_category_subcategory"
    /\ pc = "done"
    /\ \E key \in DKeys(result) :
          /\ result.map[key] = None
          /\ Cardinality(InGroup(key)) = 2
          /\ GroupProfit(key) # RZero
    /\ \E key \in DKeys(result) : result.map[key] = R(1)

Min(a, b) == IF a < b THEN a ELSE b

\* C3: top_categories_by_margin(n), n >= 0, returns min(n, number of groups
\* with non-zero total sales) entries in non-increasing order of margin,
\* each a distinct group with non-zero sales and its margin, such that no
\* group left out has a larger margin than one returned; after every
\* iteration of the selection loop the heap holds at most n entries.
C3_TopByMargin ==
    call.fn = "top_categories_by_margin" =>
        /\ pc # "raised"
        /\ pc = "heap_loop" => Len(loc.heap) <= call.n
        /\ pc = "done" =>
              LET returned == {<<result[j][1], result[j][2]>> : j \in DOMAIN result}
              IN  /\ Len(result) = Min(call.n, Cardinality(Ranked))
                  /\ Cardinality(returned) = Len(result)
                  /\ returned \subseteq Ranked
                  /\ \A j \in DOMAIN result :
                        result[j][3] = GroupMargin(<<result[j][1], result[j][2]>>)
                  /\ \A j, k \in DOMAIN result :
                        j < k => RLe(result[k][3], result[j][3])
                  /\ \A key \in Ranked \ returned : \A j \in DOMAIN result :
                        RLe(GroupMargin(key), result[j][3])

\* three ranked groups with different margins, one evicted for n = 2
C3_Witness ==
    /\ call.fn = "top_categories_by_margin"
    /\ pc = "done"
    /\ call.n = 2
    /\ Cardinality(Ranked) = 3
    /\ Len(result) = 2
    /\ RLt(result[2][3], result[1][3])
    /\ \E key \in Ranked : RLt(GroupMargin(key), result[2][3])

(***************************************************************************)
(* Sales by group and the year-over-year trends                            *)
(***************************************************************************)
FirstYear == 2020
Years == FirstYear .. (FirstYear + MaxYears - 1)

YoyRows ==
    {[DefaultRow EXCEPT !.Year = y, !.Market = m, !.Sales = s] :
        y \in Years, m \in {"US", "CAN"}, s \in -1..1}

InitYoy ==
    InitWith(YoyRows,
             {QueryCall("sales_by_year_region_category", FALSE, 0),
              QueryCall("yoy_category_sales_trends", FALSE, 0)})

NextYoy ==
    \/ sales_by_year_region_category
    \/ aggregate_sum_by_key
    \/ ReturnPrimitive
    \/ yoy_category_sales_trends

SpecYoy == InitYoy /\ [][NextYoy]_vars

RegionGroups == {key_fn("market_category", Orders[i]) : i \in AllRecords}
InRegionYear(key, y) ==
    {i \in AllRecords :
        key_fn("market_category", Orders[i]) = key /\ Orders[i].year = y}
YearsOfGroup(key) == {y \in Years : InRegionYear(key, y) # {}}

\* C4: yoy_category_sales_trends returns for each (region, category) group
\* the group's years in strictly ascending order with their sales; the
\* first entry is (year, sales, None, None); every later entry has
\* prev_sales equal to the sales of the entry before it and yoy_change
\* equal to (sales - prev_sales) / prev_sales, or None when prev_sales is
\* zero; the call never raises ZeroDivisionError.
C4_YoyTrends ==
    call.fn = "yoy_category_sales_trends" =>
        /\ pc # "raised"
        /\ pc = "done" =>
              /\ DKeys(result) = RegionGroups
              /\ \A key \in DKeys(result) :
                    LET t == result.map[key]
                    IN  /\ {t[j][1] : j \in DOMAIN t} = YearsOfGroup(key)
                        /\ \A j, k \in DOMAIN t : j < k => t[j][1] < t[k][1]
                        /\ \A j \in DOMAIN t :
                              t[j][2] = RSum(SalesOf, InRegionYear(key, t[j][1]))
                        /\ t[1][3] = None
                        /\ t[1][4] = None
                        /\ \A j \in 2..Len(t) :
                              /\ t[j][3] = t[j - 1][2]
                              /\ t[j][4] =
                                    IF t[j][3] # RZero
                                    THEN RDiv(RSub(t[j][2], t[j][3]), t[j][3])
                                    ELSE None

\* three years given out of order; the middle year sold nothing
C4_Witness ==
    /\ call.fn = "yoy_category_sales_trends"
    /\ pc = "done"
    /\ Len(file) = 3
    /\ file[1].Year > file[2].Year
    /\ \E key \in DKeys(result) :
          LET t == result.map[key]
          IN  /\ Len(t) = 3
              /\ t[2][2] = RZero
              /\ t[2][4] = R(-1)
              /\ t[3][4] = None

(***************************************************************************)
(* A session of query calls on one path                                    *)
(***************************************************************************)
\* two rows that differ in every column a query reads
SessionRows ==
    {[DefaultRow EXCEPT !.Order_Date = Day(0), !.Ship_Date = Day(1),
                        !.Discount = 1],
     [DefaultRow EXCEPT !.Sub_Category = "Tables", !.Year = 2021,
                        !.Market = "CAN", !.Sales = 2, !.Profit = -1]}

SessionCalls ==
    {QueryCall(fn, FALSE, 0) :
        fn \in {"sales_by_year_region_category", "yoy_category_sales_trends",
                "profit_margin_by_category_subcategory",
                "total_discounted_profit", "discounted_profit_share",
                "average_fulfillment_days",
                "profit_min_max_count_by_market_category"}}
    \cup {QueryCall("top_categories_by_margin", FALSE, n) : n \in 1..MaxN}
    \cup {QueryCall("profit_std_by_market_category", sample, 0) : sample \in BOOLEAN}

InitSession == InitWith(SessionRows, SessionCalls)

NextSession ==
    \/ sales_by_year_region_category
    \/ profit_std_by_market_category
    \/ profit_min_max_count_by_market_category
    \/ ReturnPrimitive
    \/ yoy_category_sales_trends
    \/ total_sales_pass
    \/ total_profit_pass
    \/ profit_margin_by_category_subcategory
    \/ top_categories_by_margin
    \/ top_categories_by_margin_iteration
    \/ top_categories_by_margin_return
    \/ total_discounted_profit
    \/ total_discounted_profit_return
    \/ discounted_profit_share_total
    \/ discounted_profit_share_return
    \/ average_fulfillment_days
    \/ average_fulfillment_days_return
    \/ aggregate_sum_by_key
    \/ aggregate_mean_by_key
    \/ aggregate_stddev_by_key
    \/ aggregate_min_max_count_by_key
    \/ Record
    \/ CallNext(SessionCalls)

SpecSession == InitSession /\ [][NextSession]_vars

\* C12: a query called again with the same path on the unchanged data
\* returns what it returned before, directly after itself or with any
\* other query called in between; every call of the session completes.
C12_Idempotent ==
    /\ pc # "raised"
    /\ \A i, j \in DOMAIN hist :
          hist[i][1] = hist[j][1] => hist[i][2] = hist[j][2]

\* a two-pass query, another two-pass query in between, the first again
C12_Witness ==
    /\ Len(hist) = 3
    /\ Len(file) = 3
    /\ hist[1][1].fn = "discounted_profit_share"
    /\ hist[2][1].fn = "top_categories_by_margin"
    /\ hist[3][1] = hist[1][1]
    /\ hist[1][2] # None

(***************************************************************************)
(* Malformed rows                                                          *)
(***************************************************************************)
\* the required columns Order.from_row parses with int() or float()
NumericColumns ==
    {"Year", "Sales", "Profit", "Discount", "Quantity", "Shipping.Cost"}

\* two well-formed rows, and one row per column whose text does not parse
BadRows ==
    {[DefaultRow EXCEPT !.Profit = p, !.Discount = p] : p \in 1..2}
    \cup {[DefaultRow EXCEPT !.bad = c] : c \in NumericColumns}

InitBad ==
    InitWith(BadRows,
             SessionCalls
             \cup {PrimCall(fn, "market_category", "profit", FALSE) :
                     fn \in Primitives})

NextBad ==
    \/ CallPrimitive
    \/ sales_by_year_region_category
    \/ profit_std_by_market_category
    \/ profit_min_max_count_by_market_category
    \/ ReturnPrimitive
    \/ yoy_category_sales_trends
    \/ total_sales_pass
    \/ total_profit_pass
    \/ profit_margin_by_category_subcategory
    \/ top_categories_by_margin
    \/ top_categories_by_margin_iteration
    \/ top_categories_by_margin_return
    \/ total_discounted_profit
    \/ total_discounted_profit_return
    \/ discounted_profit_share_total
    \/ discounted_profit_share_return
    \/ average_fulfillment_days
    \/ average_fulfillment_days_return
    \/ aggregate_sum_by_key
    \/ aggregate_mean_by_key
    \/ aggregate_stddev_by_key
    \/ aggregate_min_max_count_by_key
    \/ Raise

SpecBad == InitBad /\ [][NextBad]_vars

\* a call that has a step to take takes it
SpecBadLive == SpecBad /\ WF_vars(NextBad)

HasBadRow == \E i \in 1..Len(file) : file[i].bad # ""

\* C13: when a row of the input has a required numeric field that does not
\* parse, no primitive returns a mapping and no query returns a result,
\* wherever the row stands; the call ends, and it ends by the exception.
C13_BadRowAborts ==
    /\ [](HasBadRow => pc # "done" /\ agg.st # "ret" /\ result = None)
    /\ HasBadRow ~> pc = "raised"

\* two well-formed rows were folded before the bad third row
C13_Witness ==
    /\ pc = "raised"
    /\ Len(file) = 3
    /\ file[1].bad = "" /\ file[2].bad = "" /\ file[3].bad = "Shipping.Cost"
    /\ call.fn = "discounted_profit_share"
    /\ stats # EmptyDict

(***************************************************************************)
(* One traversal per primitive                                             *)
(***************************************************************************)
PullRows ==
    {[DefaultRow EXCEPT !.Market = m, !.Sales = v, !.Profit = -v] :
        m \in {"US", "CAN"}, v \in 1..MaxVal}

InitPull ==
    InitWith(PullRows,
             {PrimCall(fn, "market_category", "sales", FALSE) :
                fn \in Primitives}
             \cup {PrimCall("aggregate_stddev_by_key", "all", "profit", TRUE)}
             \cup {QueryCall("profit_std_by_market_category", FALSE, 0),
                   QueryCall("profit_min_max_count_by_market_category",
                             FALSE, 0)})

\* the for loop of a primitive runs while it has an iteration to make
SpecPull == InitPull /\ [][NextPrim]_vars /\ WF_vars(NextPrim)

\* C14: each iteration of a primitive takes the record that follows the ones
\* it has taken, so every record is pulled exactly once and in order; the
\* primitive returns at the iteration that finds the sequence exhausted and
\* not before, asks the sequence for nothing afterwards, and on a finite
\* sequence it eventually returns.
C14_SingleTraversal ==
    /\ [][agg.st = "run" =>
            IF Consumed < Len(file)
            THEN /\ Pulled.out = "order"
                 /\ Pulled.order = Orders[Consumed + 1]
                 /\ Consumed' = Consumed + 1
                 /\ agg'.st = "run"
            ELSE /\ Pulled.out = "stop"
                 /\ Consumed' = Consumed
                 /\ agg'.st = "ret"]_vars
    /\ [][agg.st = "ret" => gen' = gen]_vars
    /\ [](agg.st = "ret" => Consumed = Len(file) /\ gen.st = "done")
    /\ <>(pc = "done")

\* stddev has returned after three different records
C14_Witness ==
    /\ pc = "done"
    /\ Len(file) = 3
    /\ Cardinality({file[i] : i \in 1..3}) = 3
    /\ call.fn = "aggregate_stddev_by_key"
    /\ Consumed = 3

(***************************************************************************)
(* Welford's state                                                         *)
(***************************************************************************)
\* the arithmetic mean of the values v[i], i in the non-empty set G
MeanOf(v, G) == RDiv(RSum(v, G), R(Cardinality(G)))

\* the sum of the squared deviations of the values v[i], i in G, from m
SquaredDeviations(v, G, m) ==
    RSum([i \in G |-> RMul(RSub(v[i], m), RSub(v[i], m))], G)

\* C15: after stddev_by_key has consumed a prefix of the records, the state
\* of each key seen is (count, mean, M2) with count the number of values of
\* that key in the prefix, mean their arithmetic mean and M2 the sum of
\* their squared deviations from that mean, so M2 >= 0; in population mode
\* the result for a key is the square root of M2 / count.
C15_WelfordState ==
    (agg.fn = "aggregate_stddev_by_key" /\ agg.st \in {"run", "ret"}) =>
        /\ DKeys(stats) = KeysSeen(Consumed)
        /\ \A key \in KeysSeen(Consumed) :
              LET G  == Group(agg.key_fn, key, Consumed)
                  v  == ValuesOf(agg.value_fn)
                  m2 == SquaredDeviations(v, G, MeanOf(v, G))
              IN  /\ stats.map[key] = <<Cardinality(G), MeanOf(v, G), m2>>
                  /\ RLe(RZero, stats.map[key][3])
                  /\ (agg.st = "ret" /\ ~agg.sample) =>
                        /\ DHas(ret, key)
                        /\ ret.map[key] = sqrt(RDiv(m2, R(Cardinality(G))))

\* the unit test's values [100, 200] in units of 100: the values 1 and 2
\* of one key have mean 3/2, M2 = 1/2, variance 1/4 and deviation 1/2
C15_Witness ==
    /\ pc = "done"
    /\ call.fn = "aggregate_stddev_by_key"
    /\ call.value_fn = "sales"
    /\ ~call.sample
    /\ Len(file) = 2
    /\ file[1].Sales = 1 /\ file[2].Sales = 2
    /\ file[1].Market = file[2].Market
    /\ \E key \in KeysSeen(2) :
          /\ stats.map[key] = <<2, <<3, 2>>, <<1, 2>>>>
          /\ result.map[key] = <<1, 2>>

====
